---- MODULE Spec2Model ----
(***************************************************************************)
(* Model of the erc20 pallet (src/pallets/erc20/lib.rs): the three storage *)
(* maps Tokens, BalanceOf and Allowance, the four dispatchable calls init, *)
(* transfer, transfer_from and approve, and the helper _transfer.          *)
(*                                                                         *)
(* The storage maps are keyed by a u32 token id, and _transfer and approve *)
(* read an identifier token_id that no argument list binds.  The model     *)
(* binds token_id as an input of every call; every key that the source     *)
(* writes without it (init, transfer_from) is completed with that input.   *)
(***************************************************************************)
EXTENDS Integers, Sequences, FiniteSets, TLC

\* ------------------------------------------------------------------ bounds
\* Largest value of T::TokenBalance in the model (an unsigned type).
MaxBalance == 2
\* Number of dispatched calls in one behaviour of Spec (calls on one token id).
MaxSteps == 3
\* Number of dispatched calls in one behaviour of SpecAll (calls on every token id).
MaxStepsAll == 2

\* ------------------------------------------------------- program constants
MaxNameLen == 64
MaxTickerLen == 32

\* ------------------------------------------------------------------ inputs
AccountId == {"A", "B", "C"}
\* A call origin: a signed account, or an origin that is not signed.
Unsigned == "Unsigned"
Origins == AccountId \cup {Unsigned}
TokenIds == {1, 2}
\* The token id the calls of Spec are made on.
OneToken == {1}
Balances == 0..MaxBalance

Bytes(n) == [i \in 1..n |-> 0]
Names == {Bytes(0), Bytes(MaxNameLen), Bytes(MaxNameLen + 1)}
Tickers == {Bytes(MaxTickerLen), Bytes(MaxTickerLen + 1)}

\* --------------------------------------------------------- dispatch results
Ok == "Ok"
BadOrigin == "BadOrigin"
NameTooLong == "token name cannot exceed 64 bytes"
TickerTooLong == "token ticker cannot exceed 32 bytes"
NotEnoughBalance == "Not enough balance."
BalanceOverflow == "overflow in calculating balance"
NotEnoughAllowance == "Not enough allowance"
StorageOverflow == "StorageOverflow"
AllowanceOverflow == "overflow in calculating allowance"

VARIABLES
    Tokens,     \* map u32 => Erc20Token
    BalanceOf,  \* map (u32, AccountId) => TokenBalance
    Allowance,  \* map (u32, AccountId, AccountId) => TokenBalance
    events,     \* the events deposited so far, in order
    last,       \* the call dispatched last, its arguments and its result
    created,    \* per token id, how many init calls wrote it (0, 1, 2 = more)
    steps       \* number of calls dispatched

vars == <<Tokens, BalanceOf, Allowance, events, last, created, steps>>

\* Erc20Token::default()
DefaultToken == [name |-> <<>>, ticker |-> <<>>, total_supply |-> 0]

\* ----------------------------------------------------------------- getters
token_details(token_id) == Tokens[token_id]
balance_of(token_id, who) == BalanceOf[<<token_id, who>>]
allowance(token_id, owner, spender) == Allowance[<<token_id, owner, spender>>]

\* ------------------------------------------------------ checked arithmetic
\* Option::None of checked_add / checked_sub
NoneVal == -1

checked_add(a, b) == IF a + b > MaxBalance THEN NoneVal ELSE a + b

checked_sub(a, b) == IF a < b THEN NoneVal ELSE a - b

\* ensure_signed(origin): the account of a signed origin
is_signed(origin) == origin \in AccountId

\* ------------------------------------------------------------------ events
Transfer(token_id, from, to, value) ==
    [kind |-> "Transfer", token_id |-> token_id, a |-> from, b |-> to, value |-> value]

\* The Approval event with owner and spender in each other's place.
Approval_swapped(token_id, owner, spender, value) ==
    [kind |-> "Approval", token_id |-> token_id, a |-> spender, b |-> owner, value |-> value]

Approval(token_id, owner, spender, value) ==
    [kind |-> "Approval", token_id |-> token_id, a |-> owner, b |-> spender, value |-> value]

\* The record of a dispatched call.  from/to are the two account arguments
\* (init: the origin twice; transfer: origin and to; approve: origin and
\* spender); pre is the allowance an approve or transfer_from read before it
\* wrote, and the balance a successful init overwrote; name and ticker are
\* the metadata arguments of init (empty for the other calls).
Call(op, origin, token_id, from, to, value, pre, res) ==
    [op |-> op, origin |-> origin, token_id |-> token_id, from |-> from,
     to |-> to, value |-> value, pre |-> pre, res |-> res,
     name |-> <<>>, ticker |-> <<>>]

\* The record of a dispatched init.
InitCall(origin, token_id, name, ticker, total_supply, pre, res) ==
    [Call("init", origin, token_id, origin, origin, total_supply, pre, res)
        EXCEPT !.name = name, !.ticker = ticker]

Init ==
    /\ Tokens = [t \in TokenIds |-> DefaultToken]
    /\ BalanceOf = [k \in TokenIds \X AccountId |-> 0]
    /\ Allowance = [k \in TokenIds \X AccountId \X AccountId |-> 0]
    /\ events = <<>>
    /\ last = Call("none", Unsigned, 1, Unsigned, Unsigned, 0, 0, Ok)
    /\ created = [t \in TokenIds |-> 0]
    /\ steps = 0

\* The runtime dispatches one call at a time, at most limit of them.
Dispatched(limit) ==
    /\ steps < limit
    /\ steps' = steps + 1

\* ------------------------------------------------------------------- init
\* A name of MaxNameLen bytes is refused.
name_fits_strict(name) == Len(name) < MaxNameLen

\* ensure!(name.len() <= 64, ...)
name_fits(name) == Len(name) <= MaxNameLen

\* ensure!(ticker.len() <= 32, ...)
ticker_fits(ticker) == Len(ticker) <= MaxTickerLen

\* The supply added to the balance already at the key.
initial_balance_added(prior, total_supply) == prior + total_supply

\* The balance init stores for the sender: total_supply itself.
initial_balance(prior, total_supply) == total_supply

\* The insert resets the token's ledger: every other holder goes to zero.
insert_supply_reset(B, token_id, sender, total_supply) ==
    [k \in DOMAIN B |->
        IF k[1] # token_id THEN B[k]
        ELSE IF k[2] = sender THEN total_supply ELSE 0]

\* The BalanceOf insert of init: the one key of the sender.
insert_supply(B, token_id, sender, total_supply) ==
    [B EXCEPT ![<<token_id, sender>>] = initial_balance(@, total_supply)]

init(origin, token_id, name, ticker, total_supply) ==
    /\ IF ~is_signed(origin)
       THEN /\ last' = InitCall(origin, token_id, name, ticker, total_supply, 0, BadOrigin)
            /\ UNCHANGED <<Tokens, BalanceOf, created>>
       ELSE IF ~name_fits(name)
       THEN /\ last' = InitCall(origin, token_id, name, ticker, total_supply, 0, NameTooLong)
            /\ UNCHANGED <<Tokens, BalanceOf, created>>
       ELSE IF ~ticker_fits(ticker)
       THEN /\ last' = InitCall(origin, token_id, name, ticker, total_supply, 0, TickerTooLong)
            /\ UNCHANGED <<Tokens, BalanceOf, created>>
       ELSE /\ Tokens' = [Tokens EXCEPT ![token_id] =
                            [name |-> name, ticker |-> ticker, total_supply |-> total_supply]]
            /\ BalanceOf' = insert_supply(BalanceOf, token_id, origin, total_supply)
            /\ created' = [created EXCEPT ![token_id] = IF @ < 2 THEN @ + 1 ELSE @]
            /\ last' = InitCall(origin, token_id, name, ticker, total_supply,
                                balance_of(token_id, origin), Ok)
    /\ UNCHANGED <<Allowance, events>>

\* -------------------------------------------------------------- _transfer
\* A strict comparison in place of >=.
enough_balance_strict(sender_balance, value) == sender_balance > value

\* ensure!(sender_balance >= value, ...)
enough_balance(sender_balance, value) == sender_balance >= value

\* The receiver's insert alone: the sender is never debited.
insert_receiver_only(B, token_id, from, to, updated_from_balance, updated_to_balance) ==
    [B EXCEPT ![<<token_id, to>>] = updated_to_balance]

\* The two inserts keyed by the account alone: they write the sender's and
\* the receiver's entry of every token id.
insert_balances_any_token(B, token_id, from, to, updated_from_balance, updated_to_balance) ==
    [k \in DOMAIN B |->
        IF k[2] = to THEN updated_to_balance
        ELSE IF k[2] = from THEN updated_from_balance
        ELSE B[k]]

\* The two inserts of _transfer, in the order of the source: the sender's
\* key first, the receiver's key second.
insert_balances(B, token_id, from, to, updated_from_balance, updated_to_balance) ==
    LET B1 == [B EXCEPT ![<<token_id, from>>] = updated_from_balance]
    IN  [B1 EXCEPT ![<<token_id, to>>] = updated_to_balance]

\* The outcome of _transfer on the current storage: its result, the balance
\* map it leaves and the event log it leaves.
Failed(err) == [res |-> err, BalanceOf |-> BalanceOf, events |-> events]

_transfer(token_id, from, to, value) ==
    LET sender_balance == balance_of(token_id, from)
        updated_from_balance == checked_sub(sender_balance, value)
        receiver_balance == balance_of(token_id, to)
        updated_to_balance == checked_add(receiver_balance, value)
    IN  IF ~enough_balance(sender_balance, value) THEN Failed(NotEnoughBalance)
        ELSE IF updated_from_balance = NoneVal THEN Failed(BalanceOverflow)
        ELSE IF updated_to_balance = NoneVal THEN Failed(BalanceOverflow)
        ELSE [res |-> Ok,
              BalanceOf |-> insert_balances(BalanceOf, token_id, from, to,
                                            updated_from_balance, updated_to_balance),
              events |-> Append(events, Transfer(token_id, from, to, value))]

\* --------------------------------------------------------------- transfer
transfer(origin, token_id, to, value) ==
    /\ IF ~is_signed(origin)
       THEN /\ last' = Call("transfer", origin, token_id, origin, to, value, 0, BadOrigin)
            /\ UNCHANGED <<BalanceOf, events>>
       ELSE LET r == _transfer(token_id, origin, to, value)
            IN  /\ BalanceOf' = r.BalanceOf
                /\ events' = r.events
                /\ last' = Call("transfer", origin, token_id, origin, to, value, 0, r.res)
    /\ UNCHANGED <<Tokens, Allowance, created>>

\* ---------------------------------------------------------- transfer_from
\* The key of the allowance that transfer_from reads and writes.
spend_key(token_id, origin, from, to) == <<token_id, from, to>>

\* An identifier of the source that nothing in scope binds.
Unbound == "Unbound"

\* ensure!(allowance >= value, ...)
enough_allowance(current, value) == current >= value

\* The source never reads _origin, moves no balance, and deposits an
\* Approval event whose sender and spender name no binding in scope: the
\* event carries Unbound in both places.
transfer_from(origin, token_id, from, to, value) ==
    /\ LET key == spend_key(token_id, origin, from, to)
           current == Allowance[key]
           updated_allowance == checked_sub(current, value)
       IN  IF ~enough_allowance(current, value)
           THEN /\ last' = Call("transfer_from", origin, token_id, from, to, value, current, NotEnoughAllowance)
                /\ UNCHANGED <<Allowance, events>>
           ELSE IF updated_allowance = NoneVal
           THEN /\ last' = Call("transfer_from", origin, token_id, from, to, value, current, StorageOverflow)
                /\ UNCHANGED <<Allowance, events>>
           ELSE /\ Allowance' = [Allowance EXCEPT ![key] = updated_allowance]
                /\ events' = Append(events, Approval(token_id, Unbound, Unbound, value))
                /\ last' = Call("transfer_from", origin, token_id, from, to, value, current, Ok)
    /\ UNCHANGED <<Tokens, BalanceOf, created>>

\* ---------------------------------------------------------------- approve
\* The allowance set to value, not raised by it.
approve_set(current, value) == value

\* The sum wrapped around the width of the balance type.
approve_wrap(current, value) == (current + value) % (MaxBalance + 1)

\* allowance.checked_add(&value)
approve_update(current, value) == checked_add(current, value)

\* An approve that also takes the approved value out of the owner's balance
\* when the balance holds it.
approve_escrow(origin, token_id, spender, value) ==
    /\ IF ~is_signed(origin)
       THEN /\ last' = Call("approve", origin, token_id, origin, spender, value, 0, BadOrigin)
            /\ UNCHANGED <<Allowance, BalanceOf, events>>
       ELSE LET current == allowance(token_id, origin, spender)
                updated_allowance == approve_update(current, value)
            IN  IF updated_allowance = NoneVal
                THEN /\ last' = Call("approve", origin, token_id, origin, spender, value, current, AllowanceOverflow)
                     /\ UNCHANGED <<Allowance, BalanceOf, events>>
                ELSE /\ Allowance' = [Allowance EXCEPT ![<<token_id, origin, spender>>] = updated_allowance]
                     /\ BalanceOf' = [BalanceOf EXCEPT ![<<token_id, origin>>] =
                                        IF @ >= value THEN @ - value ELSE @]
                     /\ events' = Append(events, Approval(token_id, origin, spender, value))
                     /\ last' = Call("approve", origin, token_id, origin, spender, value, current, Ok)
    /\ UNCHANGED <<Tokens, created>>

approve(origin, token_id, spender, value) ==
    /\ IF ~is_signed(origin)
       THEN /\ last' = Call("approve", origin, token_id, origin, spender, value, 0, BadOrigin)
            /\ UNCHANGED <<Allowance, events>>
       ELSE LET current == allowance(token_id, origin, spender)
                updated_allowance == approve_update(current, value)
            IN  IF updated_allowance = NoneVal
                THEN /\ last' = Call("approve", origin, token_id, origin, spender, value, current, AllowanceOverflow)
                     /\ UNCHANGED <<Allowance, events>>
                ELSE /\ Allowance' = [Allowance EXCEPT ![<<token_id, origin, spender>>] = updated_allowance]
                     /\ events' = Append(events, Approval(token_id, origin, spender, value))
                     /\ last' = Call("approve", origin, token_id, origin, spender, value, current, Ok)
    /\ UNCHANGED <<Tokens, BalanceOf, created>>

\* ------------------------------------------------------------------- Next
CallInit(ids) ==
    \E o \in Origins, t \in ids, n \in Names, k \in Tickers, s \in Balances :
        init(o, t, n, k, s)

CallTransfer(ids) ==
    \E o \in Origins, t \in ids, to \in AccountId, v \in Balances :
        transfer(o, t, to, v)

CallTransferFrom(ids) ==
    \E o \in Origins, t \in ids, from \in AccountId, to \in AccountId, v \in Balances :
        transfer_from(o, t, from, to, v)

CallApprove(ids) ==
    \E o \in Origins, t \in ids, spender \in AccountId, v \in Balances :
        approve(o, t, spender, v)

\* Calls on one token id.
DoInit == Dispatched(MaxSteps) /\ CallInit(OneToken)
DoTransfer == Dispatched(MaxSteps) /\ CallTransfer(OneToken)
DoTransferFrom == Dispatched(MaxSteps) /\ CallTransferFrom(OneToken)
DoApprove == Dispatched(MaxSteps) /\ CallApprove(OneToken)

Next == DoInit \/ DoTransfer \/ DoTransferFrom \/ DoApprove

Spec == Init /\ [][Next]_vars

\* Calls on every token id.
DoInitAll == Dispatched(MaxStepsAll) /\ CallInit(TokenIds)
DoTransferAll == Dispatched(MaxStepsAll) /\ CallTransfer(TokenIds)
DoTransferFromAll == Dispatched(MaxStepsAll) /\ CallTransferFrom(TokenIds)
DoApproveAll == Dispatched(MaxStepsAll) /\ CallApprove(TokenIds)

NextAll == DoInitAll \/ DoTransferAll \/ DoTransferFromAll \/ DoApproveAll

SpecAll == Init /\ [][NextAll]_vars

\* ================================================================= claims
\* The sum of the balance entries of token t over the accounts S.
RECURSIVE SumOver(_, _, _)
SumOver(B, t, S) ==
    IF S = {} THEN 0
    ELSE LET a == CHOOSE x \in S : TRUE
         IN  B[<<t, a>>] + SumOver(B, t, S \ {a})

\* The balance map after value moved from from to to (debit, then credit).
Moved(B, t, from, to, v) ==
    [B EXCEPT ![<<t, from>>] = @ - v, ![<<t, to>>] = @ + v]

\* The step dispatched the call op from a signed origin.
Signed(c) == c.origin \in AccountId
StoreUnchanged == UNCHANGED <<Tokens, BalanceOf, Allowance>>

\* C1: conservation -- for every token id created exactly once, the sum of
\* its balance entries equals the total_supply of its record.
C1_Conservation ==
    \A t \in TokenIds :
        created[t] = 1 => SumOver(BalanceOf, t, AccountId) = Tokens[t].total_supply

\* C2: a transfer with from = to and value <= balance_of(from) succeeds and
\* leaves every balance as it was.
C2_SelfTransferNoOp ==
    [][(/\ last'.op = "transfer"
        /\ Signed(last')
        /\ last'.from = last'.to
        /\ last'.value <= balance_of(last'.token_id, last'.from))
       => (last'.res = Ok /\ BalanceOf' = BalanceOf)]_vars

\* C3: a successful transfer of value from A to B, A # B, lowers A's balance
\* by value, raises B's by value and leaves every other balance entry as it was.
C3_TransferMovesValue ==
    [][(/\ last'.op = "transfer"
        /\ last'.res = Ok
        /\ last'.from # last'.to)
       => BalanceOf' = Moved(BalanceOf, last'.token_id, last'.from, last'.to, last'.value)]_vars

\* C3 witness: a transfer of a positive value between two accounts succeeded.
C3_Witness ==
    /\ last.op = "transfer"
    /\ last.res = Ok
    /\ last.from # last.to
    /\ last.value > 0
    /\ balance_of(last.token_id, last.to) >= last.value

\* C4: a successful transfer_from lowers allowance(token, from, caller) by
\* value and moves value from from's balance to to's balance; with value > 0
\* and from # to it never leaves the balances untouched.
C4_TransferFromMoves ==
    [][(/\ last'.op = "transfer_from"
        /\ Signed(last')
        /\ last'.res = Ok)
       => (/\ Allowance'[<<last'.token_id, last'.from, last'.origin>>]
                = Allowance[<<last'.token_id, last'.from, last'.origin>>] - last'.value
           /\ BalanceOf' = Moved(BalanceOf, last'.token_id, last'.from, last'.to, last'.value)
           /\ (last'.value > 0 /\ last'.from # last'.to => BalanceOf' # BalanceOf))]_vars

\* C5: transfer_from checks and consumes the allowance keyed by
\* (token, from, caller): a successful call had at least value there, and
\* changes that entry alone, lowering it by value.
C5_SpenderKeyed ==
    [][(/\ last'.op = "transfer_from"
        /\ Signed(last')
        /\ last'.res = Ok)
       => (/\ Allowance[<<last'.token_id, last'.from, last'.origin>>] >= last'.value
           /\ Allowance' = [Allowance EXCEPT
                              ![<<last'.token_id, last'.from, last'.origin>>] = @ - last'.value])]_vars

\* C6: a transfer_from whose allowance suffices but whose balance movement
\* cannot be made (balance_of(from) < value, or the credit overflows) fails
\* and leaves the allowance as it was.
C6_AtomicOnFailure ==
    [][(/\ last'.op = "transfer_from"
        /\ Signed(last')
        /\ Allowance[<<last'.token_id, last'.from, last'.origin>>] >= last'.value
        /\ \/ balance_of(last'.token_id, last'.from) < last'.value
           \/ balance_of(last'.token_id, last'.to) + last'.value > MaxBalance)
       => (last'.res # Ok /\ Allowance' = Allowance)]_vars

\* C7 as stated: a transfer with value > balance_of(from) fails with "Not
\* enough balance." and changes nothing; a transfer with value =
\* balance_of(from) succeeds and leaves from's balance at zero.
C7_Original ==
    [][(last'.op = "transfer" /\ Signed(last'))
       => (/\ last'.value > balance_of(last'.token_id, last'.from)
                => (last'.res = NotEnoughBalance /\ StoreUnchanged /\ events' = events)
           /\ last'.value = balance_of(last'.token_id, last'.from)
                => (last'.res = Ok /\ BalanceOf'[<<last'.token_id, last'.from>>] = 0))]_vars

\* C7 amended: a transfer with value > balance_of(from) fails with "Not
\* enough balance." and changes nothing; a transfer with value =
\* balance_of(from) to another account, whose credit does not pass the
\* maximum of the balance type, succeeds and leaves from's balance at zero.
C7_Amended ==
    [][(last'.op = "transfer" /\ Signed(last'))
       => (/\ last'.value > balance_of(last'.token_id, last'.from)
                => (last'.res = NotEnoughBalance /\ StoreUnchanged /\ events' = events)
           /\ (/\ last'.value = balance_of(last'.token_id, last'.from)
               /\ last'.from # last'.to
               /\ balance_of(last'.token_id, last'.to) + last'.value <= MaxBalance)
                => (last'.res = Ok /\ BalanceOf'[<<last'.token_id, last'.from>>] = 0))]_vars

\* C7 witness: a transfer of a whole positive balance to another account
\* succeeded and left the sender at zero.
C7_Witness ==
    /\ last.op = "transfer"
    /\ last.res = Ok
    /\ last.from # last.to
    /\ last.value > 0
    /\ balance_of(last.token_id, last.from) = 0

\* C8: a transfer_from with value > allowance(token, from, caller) fails
\* with "Not enough allowance", changes nothing and deposits no event; with
\* value = allowance(token, from, caller) a successful call leaves that
\* allowance at zero.
C8_AllowanceChecked ==
    [][(last'.op = "transfer_from" /\ Signed(last'))
       => (/\ last'.value > Allowance[<<last'.token_id, last'.from, last'.origin>>]
                => (last'.res = NotEnoughAllowance /\ StoreUnchanged /\ events' = events)
           /\ (/\ last'.value = Allowance[<<last'.token_id, last'.from, last'.origin>>]
               /\ last'.res = Ok)
                => Allowance'[<<last'.token_id, last'.from, last'.origin>>] = 0)]_vars

\* C9: a transfer, direct or on behalf, that passes its balance (and
\* allowance) check and whose credit would push the receiver's balance above
\* the maximum of the balance type fails with "overflow in calculating
\* balance" and leaves every balance as it was.
C9_OverflowFails ==
    [][(/\ Signed(last')
        /\ \/ last'.op = "transfer"
           \/ /\ last'.op = "transfer_from"
              /\ Allowance[<<last'.token_id, last'.from, last'.origin>>] >= last'.value
        /\ balance_of(last'.token_id, last'.from) >= last'.value
        /\ balance_of(last'.token_id, last'.to) + last'.value > MaxBalance)
       => (last'.res = BalanceOverflow /\ BalanceOf' = BalanceOf)]_vars

\* C10: a successful approve(v) raises allowance(token, owner, spender) by v
\* and changes no other entry; approve(v1) followed at once by approve(v2) of
\* the same owner for the same spender leaves a + v1 + v2, a being the
\* allowance before the first.
C10_ApproveAdditive ==
    [][(last'.op = "approve" /\ last'.res = Ok)
       => (/\ Allowance' = [Allowance EXCEPT
                              ![<<last'.token_id, last'.origin, last'.to>>] = @ + last'.value]
           /\ (/\ last.op = "approve"
               /\ last.res = Ok
               /\ last.token_id = last'.token_id
               /\ last.origin = last'.origin
               /\ last.to = last'.to)
                => Allowance'[<<last'.token_id, last'.origin, last'.to>>]
                     = last.pre + last.value + last'.value)]_vars

\* C10 witness: the second of two successful approves of positive values, of
\* one owner for one spender, has been dispatched.
C10_Witness ==
    /\ steps = 2
    /\ last.op = "approve"
    /\ last.res = Ok
    /\ last.pre > 0
    /\ last.value > 0
    /\ allowance(last.token_id, last.origin, last.to) = last.pre + last.value

\* C11: an approve whose value added to the current allowance passes the
\* maximum of the balance type fails with "overflow in calculating
\* allowance", leaves every allowance as it was and deposits no event.
C11_ApproveOverflow ==
    [][(/\ last'.op = "approve"
        /\ Signed(last')
        /\ Allowance[<<last'.token_id, last'.origin, last'.to>>] + last'.value > MaxBalance)
       => (/\ last'.res = AllowanceOverflow
           /\ Allowance' = Allowance
           /\ events' = events)]_vars

\* C11 witness: an approve of a positive value on an allowance too large to
\* take it has failed, and the allowance is what the approve read.
C11_Witness ==
    /\ last.op = "approve"
    /\ last.res = AllowanceOverflow
    /\ last.pre > 0
    /\ last.pre + last.value > MaxBalance
    /\ allowance(last.token_id, last.origin, last.to) = last.pre

\* C12: a successful init writes the record {name, ticker, total_supply} of
\* its arguments under its token id, sets the caller's balance of that token
\* to total_supply (whatever was there), and changes no other balance, no
\* other record and no allowance; a signed init with fitting metadata and
\* total_supply = 0 succeeds.
C12_InitWrites ==
    [][(last'.op = "init")
       => (/\ last'.res = Ok
                => (/\ Tokens' = [Tokens EXCEPT ![last'.token_id] =
                                    [name |-> last'.name, ticker |-> last'.ticker,
                                     total_supply |-> last'.value]]
                    /\ BalanceOf' = [BalanceOf EXCEPT
                                       ![<<last'.token_id, last'.origin>>] = last'.value]
                    /\ Allowance' = Allowance)
           /\ (/\ Signed(last')
               /\ Len(last'.name) <= MaxNameLen
               /\ Len(last'.ticker) <= MaxTickerLen
               /\ last'.value = 0)
                => last'.res = Ok)]_vars

\* C12 witness: a successful init of a positive supply by a caller who held a
\* positive balance of the token; the balance is the supply.
C12_Witness ==
    /\ last.op = "init"
    /\ last.res = Ok
    /\ last.pre > 0
    /\ last.value > 0
    /\ balance_of(last.token_id, last.origin) = last.value
    /\ Tokens[last.token_id].total_supply = last.value

\* C13: init checks the origin, then the name, then the ticker, and the first
\* failure wins: an unsigned init fails with BadOrigin; a signed one whose
\* name is longer than 64 bytes fails with the name error; otherwise one whose
\* ticker is longer than 32 bytes fails with the ticker error; each failure
\* leaves every record, balance and allowance as it was; a name of up to 64
\* bytes with a ticker of up to 32 bytes is accepted.
C13_MetadataChecked ==
    [][(last'.op = "init")
       => (/\ ~Signed(last')
                => (last'.res = BadOrigin /\ StoreUnchanged)
           /\ (Signed(last') /\ Len(last'.name) > MaxNameLen)
                => (last'.res = NameTooLong /\ StoreUnchanged)
           /\ (/\ Signed(last')
               /\ Len(last'.name) <= MaxNameLen
               /\ Len(last'.ticker) > MaxTickerLen)
                => (last'.res = TickerTooLong /\ StoreUnchanged)
           /\ (/\ Signed(last')
               /\ Len(last'.name) <= MaxNameLen
               /\ Len(last'.ticker) <= MaxTickerLen)
                => last'.res = Ok)]_vars

\* C13 witness: an init whose name and ticker are both too long has failed
\* with the name error, after an init with a name of 64 bytes and a ticker of
\* 32 bytes wrote its record.
C13_Witness ==
    /\ last.op = "init"
    /\ Len(last.name) > MaxNameLen
    /\ Len(last.ticker) > MaxTickerLen
    /\ last.res = NameTooLong
    /\ \E t \in TokenIds :
          /\ created[t] = 1
          /\ Len(Tokens[t].name) = MaxNameLen
          /\ Len(Tokens[t].ticker) = MaxTickerLen

\* C14: every call (init, transfer, approve, transfer_from) from an origin
\* that is not signed fails with BadOrigin, leaves the three maps as they
\* were and deposits no event.
C14_UnsignedRefused ==
    [][(/\ last'.op \in {"init", "transfer", "approve", "transfer_from"}
        /\ ~Signed(last'))
       => (/\ last'.res = BadOrigin
           /\ StoreUnchanged
           /\ events' = events)]_vars

\* C15: a successful transfer_from deposits exactly one event, the
\* Transfer(token id, from, to, value) of its arguments, and no Approval; a
\* failed transfer_from deposits none.
C15_TransferFromEvent ==
    [][(last'.op = "transfer_from")
       => IF last'.res = Ok
          THEN events' = Append(events,
                    [kind |-> "Transfer", token_id |-> last'.token_id,
                     a |-> last'.from, b |-> last'.to, value |-> last'.value])
          ELSE events' = events]_vars

\* C16: each successful transfer appends exactly one Transfer(token id,
\* from, to, value) to the event log and each successful approve exactly one
\* Approval(token id, owner, spender, value) with the value added; every
\* failed call and every init appends nothing; the log is never cut.
C16_EventLog ==
    [][/\ (last'.op = "transfer" /\ last'.res = Ok)
            => events' = Append(events,
                    [kind |-> "Transfer", token_id |-> last'.token_id,
                     a |-> last'.from, b |-> last'.to, value |-> last'.value])
       /\ (last'.op = "approve" /\ last'.res = Ok)
            => events' = Append(events,
                    [kind |-> "Approval", token_id |-> last'.token_id,
                     a |-> last'.origin, b |-> last'.to, value |-> last'.value])
       /\ (last'.res # Ok \/ last'.op = "init")
            => events' = events]_vars

\* C16 witness: after an init, a successful transfer of a positive value and
\* a successful approve of a positive value, the log holds the Transfer and
\* then the Approval of the approve's arguments.
C16_Witness ==
    /\ steps = 3
    /\ Len(events) = 2
    /\ events[1].kind = "Transfer"
    /\ events[1].value > 0
    /\ last.op = "approve"
    /\ last.res = Ok
    /\ last.value > 0
    /\ last.origin # last.to
    /\ events[2] = [kind |-> "Approval", token_id |-> last.token_id,
                    a |-> last.origin, b |-> last.to, value |-> last.value]

\* C17: an approve step lowers no allowance entry and changes only the entry
\* (token, caller, spender); a transfer_from step raises no entry and changes
\* only the entry (token, from, caller); init and transfer change no entry;
\* no entry is ever negative.
C17_AllowanceWriters ==
    [][/\ last'.op = "approve"
            => \A k \in DOMAIN Allowance :
                  /\ Allowance'[k] >= Allowance[k]
                  /\ k # <<last'.token_id, last'.origin, last'.to>>
                        => Allowance'[k] = Allowance[k]
       /\ last'.op = "transfer_from"
            => \A k \in DOMAIN Allowance :
                  /\ Allowance'[k] <= Allowance[k]
                  /\ k # <<last'.token_id, last'.from, last'.origin>>
                        => Allowance'[k] = Allowance[k]
       /\ last'.op \in {"init", "transfer"} => Allowance' = Allowance
       /\ \A k \in DOMAIN Allowance : Allowance'[k] >= 0]_vars

\* C18: an init on a token id that an init already wrote succeeds like a
\* first one: the record becomes the one of the new arguments, the caller's
\* balance of the token becomes the new total_supply, every other holder's
\* balance stays, and no event is deposited.
C18_RecreateOverwrites ==
    [][(/\ last'.op = "init"
        /\ Signed(last')
        /\ created[last'.token_id] >= 1
        /\ Len(last'.name) <= MaxNameLen
        /\ Len(last'.ticker) <= MaxTickerLen)
       => (/\ last'.res = Ok
           /\ Tokens'[last'.token_id] =
                 [name |-> last'.name, ticker |-> last'.ticker, total_supply |-> last'.value]
           /\ BalanceOf'[<<last'.token_id, last'.origin>>] = last'.value
           /\ \A a \in AccountId \ {last'.origin} :
                 BalanceOf'[<<last'.token_id, a>>] = BalanceOf[<<last'.token_id, a>>]
           /\ events' = events)]_vars

\* C18 witness: after a second init of a token, by another caller, a prior
\* holder keeps a positive balance and the balances of the token sum to more
\* than the total_supply of its record.
C18_Witness ==
    /\ last.op = "init"
    /\ last.res = Ok
    /\ created[last.token_id] = 2
    /\ \E a \in AccountId \ {last.origin} : balance_of(last.token_id, a) > 0
    /\ SumOver(BalanceOf, last.token_id, AccountId) > Tokens[last.token_id].total_supply

\* C19: transfer, approve and transfer_from, successful or not, change no
\* token record; approve changes no balance; a balance changes only in an
\* init or in a call of the direct-transfer helper, which deposits its
\* Transfer event.
C19_Writers ==
    [][/\ last'.op \in {"transfer", "approve", "transfer_from"} => Tokens' = Tokens
       /\ last'.op = "approve" => BalanceOf' = BalanceOf
       /\ BalanceOf' # BalanceOf
            => \/ last'.op = "init"
               \/ /\ last'.op \in {"transfer", "transfer_from"}
                  /\ Len(events') = Len(events) + 1
                  /\ events'[Len(events')].kind = "Transfer"]_vars

\* C19 witness: a successful approve of a positive value by the holder of a
\* positive balance of a created token.
C19_Witness ==
    /\ last.op = "approve"
    /\ last.res = Ok
    /\ last.value > 0
    /\ created[last.token_id] = 1
    /\ Tokens[last.token_id].total_supply > 0
    /\ balance_of(last.token_id, last.origin) >= last.value

====
